---------------------------- MODULE Spec2Model ----------------------------
(***************************************************************************)
(* A model of src/src/trade_analysis.py: the concurrent per-(year,         *)
(* reporter) trade fetch (fetch_un_comtrade_data), the pairwise normalizer *)
(* (prepare_cepii_data), the three-way join (merge_datasets) and the       *)
(* country-code resolution (load_country_mapping).                         *)
(*                                                                         *)
(* Python strings are sequences of code points, so that the ordering "<"   *)
(* and the concatenation "+" of the source are computed, not assumed.      *)
(* A table (DataFrame) is a sequence of rows; a row is a record.           *)
(***************************************************************************)
EXTENDS Integers, Sequences, FiniteSets, TLC

VARIABLES
    \* ---- fetch_un_comtrade_data ----
    REPORTERS,       \* CONFIG["REPORTERS"]
    PARTNERS,        \* CONFIG["PARTNERS"]
    holdings,        \* the (year, reporter) units the trade service has records for
    reporter_codes,  \* the list get_reporter_codes() returned
    pc,              \* position of the orchestrating (main) thread
    year_idx,        \* index of the current year in YEARS
    group_idx,       \* index of the current group in reporter_groups
    sub_idx,         \* how many units of the group executor.submit has queued
    queue,           \* the executor's work queue: units submitted, not started
    running,         \* the units a worker thread is executing (in flight)
    result,          \* the table held by each finished, not yet yielded future
    early,           \* as_completed: futures found finished when it is entered
    waiter,          \* as_completed: waiter.finished_futures, in completion order
    yielded,         \* as_completed: how many futures it has yielded
    year_data,       \* the per-year accumulator (a list of tables)
    all_years_data,  \* the list of per-year combined tables
    merged,          \* the run-wide table fetch_un_comtrade_data returns
    files,           \* names of the CSV files written so far
    raised,          \* history: the units whose request raised an error
    done_order,      \* history: units that returned rows, in completion order
    early_rows,      \* history: the units with rows that as_completed found
                     \* already finished when it was entered (this year)
    \* ---- load_country_mapping ----
    ext_table,       \* the "UNComtrade" sheet of the file at MAPPING_PATH
    COUNTRY_MAP,     \* the resolved ISO3 -> numeric code mapping
    map_pc,          \* "start", then "loaded"
    \* ---- prepare_cepii_data ----
    cepii_file,      \* the CSV file at CEPII_PATH: its state and its rows
    CEPII_VARIABLES, \* CONFIG["CEPII_VARIABLES"]
    cepii_keyed,     \* df once key_a and key_b are set (after line 272)
    cepii_df,        \* the table prepare_cepii_data returns
    cepii_pc,        \* "start", then "done"
    \* ---- merge_datasets ----
    wb_df,           \* the table fetch_world_bank_data returned
    trade_df,        \* the table fetch_un_comtrade_data returned
    merge_keys,      \* the column cepii_merge_key, before it is dropped
    merged_df,       \* the table merge_datasets returns
    merged_csv,      \* Merged_Trade_WB_CEPII.csv: whether written, and its rows
    merge_pc,        \* "start", then "done", or "raised"
    \* ---- main ----
    MERGE_DATA,      \* CONFIG["MERGE_DATA"]
    wb_service,      \* what the indicator service does when called
    wb_pc,           \* fetch_world_bank_data: "start", then "done" or "raised"
    trade_pc,        \* fetch_un_comtrade_data, as a step of main
    summary_pc       \* export_summary: "start", then "done" or "skipped"

fetch_vars == <<REPORTERS, PARTNERS, holdings, reporter_codes, pc, year_idx, group_idx, sub_idx,
                queue, running, result, early, waiter, yielded, year_data,
                all_years_data, merged, files, raised, done_order,
                early_rows>>

map_vars == <<ext_table, COUNTRY_MAP, map_pc>>

cepii_vars == <<cepii_file, CEPII_VARIABLES, cepii_keyed, cepii_df, cepii_pc>>

merge_vars == <<wb_df, trade_df, merge_keys, merged_df, merged_csv, merge_pc>>

main_vars == <<MERGE_DATA, wb_service, wb_pc, trade_pc, summary_pc>>

vars == <<fetch_vars, map_vars, cepii_vars, merge_vars, main_vars>>

(***************************************************************************)
(* Bounds of the model                                                     *)
(***************************************************************************)
\* number of reporter codes of the long reporter list (more than one group)
NumReporters == 21
\* number of years in CONFIG["YEARS"]
NumYears == 2
\* scheduling bound: a running unit may complete while at most this many
\* units started before it are still running
MaxOvertake == 1
\* scheduling bound: at most this many finished futures wait to be yielded
MaxBacklog == 2
\* number of rows of the external code table
MaxExtRows == 2
\* number of rows of the pairwise (CEPII) file
MaxRaw == 3
\* number of rows of the trade table handed to merge_datasets
MaxTrade == 2

(***************************************************************************)
(* Program constants                                                       *)
(***************************************************************************)
group_size == 20
max_workers == 10
FirstYear == 2015

\* strings, as sequences of code points
THA == <<84, 72, 65>>
USA == <<85, 83, 65>>
CHN == <<67, 72, 78>>
AFG == <<65, 70, 71>>
ZZZ == <<90, 90, 90>>
ALL == <<97, 108, 108>>

Min(a, b) == IF a < b THEN a ELSE b

\* a < b on Python strings: lexicographic on code points
RECURSIVE StrLess(_, _)
StrLess(a, b) ==
    IF b = <<>> THEN FALSE
    ELSE IF a = <<>> THEN TRUE
    ELSE IF Head(a) # Head(b) THEN Head(a) < Head(b)
    ELSE StrLess(Tail(a), Tail(b))

Range(s) == {s[i] : i \in 1..Len(s)}

\* CONFIG["YEARS"]
YEARS == [i \in 1..NumYears |-> FirstYear + i - 1]

(***************************************************************************)
(* Tables                                                                  *)
(***************************************************************************)
EmptyFrame == <<>>

RECURSIVE concat(_)
\* pd.concat(frames, ignore_index=True): the rows of the frames, in order
concat(frames) ==
    IF frames = <<>> THEN <<>> ELSE Head(frames) \o concat(Tail(frames))

filter_isin_mut(df, keep) == df

\* df[df[col].isin(keep)]
RECURSIVE filter_isin(_, _)
filter_isin(df, keep) ==
    IF df = <<>> THEN <<>>
    ELSE IF Head(df).partnerISO \in Range(keep)
         THEN <<Head(df)>> \o filter_isin(Tail(df), keep)
         ELSE filter_isin(Tail(df), keep)

(***************************************************************************)
(* The trade-data service (comtradeapicall.getFinalData)                   *)
(***************************************************************************)
TradeRow(y, c, p) == [period |-> y, reporterCode |-> c, partnerISO |-> p]

\* the records the service holds for unit (y, c)
ServiceRows(y, c) ==
    IF <<y, c>> \in holdings THEN <<TradeRow(y, c, THA), TradeRow(y, c, USA)>>
    ELSE <<>>

\* what one call may do: return the records as a DataFrame, as a list, or as
\* a dict wrapping them, return None or an empty table, return something that
\* is no table, or raise
Responses(y, c) ==
    LET rows == ServiceRows(y, c) IN
      IF rows # <<>>
      THEN {[kind |-> k, rows |-> rows] : k \in {"frame", "list", "dict"}}
           \cup {[kind |-> "error", rows |-> <<>>]}
      ELSE {[kind |-> k, rows |-> <<>>] :
                k \in {"none", "frame", "list", "junk", "error"}}

\* len(df) of a response
RespLen(resp) ==
    CASE resp.kind = "dict" -> 1
      [] resp.kind = "junk" -> 1
      [] OTHER -> Len(resp.rows)

\* what a future holds once its call has ended: the table fetch_single
\* returned, or the exception it let through
Returned(df) == [exc |-> FALSE, df |-> df]
Raised == [exc |-> TRUE, df |-> EmptyFrame]

fetch_single_mut(resp) ==
    IF resp.kind = "error" THEN Raised
    ELSE Returned(resp.rows)

\* fetch_single(year, reporter_code), given what getFinalData did
\* (lines 366-407: the whole body is inside try / except Exception)
fetch_single(resp) ==
    IF resp.kind = "error" THEN Returned(EmptyFrame)
    ELSE IF resp.kind # "none" /\ RespLen(resp) > 0
         THEN IF resp.kind \in {"dict", "list", "frame"}
              THEN Returned(resp.rows)
              ELSE Returned(EmptyFrame)
         ELSE Returned(EmptyFrame)

(***************************************************************************)
(* fetch_un_comtrade_data                                                  *)
(***************************************************************************)
NumGroups(codes) == (Len(codes) + group_size - 1) \div group_size

\* [reporter_codes[i:i + group_size] for i in range(0, len, group_size)]
reporter_groups(codes) ==
    [g \in 1..NumGroups(codes) |->
        SubSeq(codes, (g - 1) * group_size + 1,
               Min(g * group_size, Len(codes)))]

year == YEARS[year_idx]
group == reporter_groups(reporter_codes)[group_idx]
GroupUnits == {<<year, group[i]>> : i \in 1..Len(group)}

\* the futures that are finished and not yet yielded
Backlog == DOMAIN result

ShortList == <<1, 2>>
LongList == [i \in 1..NumReporters |-> i]

\* the runs explored: (reporter codes, PARTNERS, the service's holdings).
\* The long list makes more than one group and more units than workers;
\* the short lists have records for every unit of every year.
Scenarios ==
    {<< <<>>, <<ALL>>, {} >>,
     << ShortList, <<ALL>>, {<<YEARS[i], c>> : i \in 1..NumYears, c \in Range(ShortList)} >>,
     << ShortList, <<THA>>, {<<YEARS[i], c>> : i \in 1..NumYears, c \in Range(ShortList)} >>,
     << LongList, <<ALL>>, {<<YEARS[1], 1>>, <<YEARS[1], NumReporters>>} >>}

FetchIdle ==
    /\ REPORTERS = <<ALL>>
    /\ PARTNERS = <<ALL>>
    /\ holdings = {}
    /\ reporter_codes = <<>>
    /\ pc = "idle"
    /\ year_idx = 0
    /\ group_idx = 0
    /\ sub_idx = 0
    /\ queue = <<>>
    /\ running = {}
    /\ result = <<>>
    /\ early = {}
    /\ waiter = <<>>
    /\ yielded = 0
    /\ year_data = <<>>
    /\ all_years_data = <<>>
    /\ merged = <<>>
    /\ files = {}
    /\ raised = {}
    /\ done_order = <<>>
    /\ early_rows = {}

FetchInit ==
    /\ \E sc \in Scenarios :
          /\ reporter_codes = sc[1]
          /\ PARTNERS = sc[2]
          /\ holdings = sc[3]
    /\ REPORTERS = <<ALL>>
    /\ pc = "begin"
    /\ year_idx = 0
    /\ group_idx = 0
    /\ sub_idx = 0
    /\ queue = <<>>
    /\ running = {}
    /\ result = <<>>
    /\ early = {}
    /\ waiter = <<>>
    /\ yielded = 0
    /\ year_data = <<>>
    /\ all_years_data = <<>>
    /\ merged = <<>>
    /\ files = {}
    /\ raised = {}
    /\ done_order = <<>>
    /\ early_rows = {}

\* lines 354-359 and the entry of the two loops
Begin ==
    /\ pc = "begin"
    /\ IF reporter_codes = <<>>
       THEN /\ pc' = "done"
            /\ UNCHANGED <<year_idx, group_idx>>
       ELSE /\ pc' = "submit"
            /\ year_idx' = 1
            /\ group_idx' = 1
    /\ UNCHANGED <<map_vars, cepii_vars, merge_vars, main_vars>>
    /\ UNCHANGED <<REPORTERS, PARTNERS, holdings, reporter_codes, sub_idx, queue, running, result,
                   early, waiter, yielded, year_data, all_years_data, merged,
                   files, raised, done_order, early_rows>>

\* executor.submit(fetch_single, year, code) for the next code of the group
Submit ==
    /\ pc = "submit"
    /\ sub_idx < Len(group)
    /\ sub_idx' = sub_idx + 1
    /\ queue' = Append(queue, <<year, group[sub_idx + 1]>>)
    /\ UNCHANGED <<map_vars, cepii_vars, merge_vars, main_vars>>
    /\ UNCHANGED <<REPORTERS, PARTNERS, holdings, reporter_codes, pc, year_idx, group_idx, running,
                   result, early, waiter, yielded, year_data, all_years_data,
                   merged, files, raised, done_order, early_rows>>

WorkerAvailable_mut == TRUE

\* ThreadPoolExecutor(max_workers=10): a queued unit is taken only by one of
\* the pool's max_workers threads, each running one unit at a time
WorkerAvailable == Cardinality(running) < max_workers

\* a worker thread takes the oldest queued unit and calls fetch_single
WorkerStart ==
    /\ queue # <<>>
    /\ WorkerAvailable
    /\ running' = running \cup {Head(queue)}
    /\ queue' = Tail(queue)
    /\ UNCHANGED <<map_vars, cepii_vars, merge_vars, main_vars>>
    /\ UNCHANGED <<REPORTERS, PARTNERS, holdings, reporter_codes, pc, year_idx, group_idx, sub_idx,
                   result, early, waiter, yielded, year_data, all_years_data,
                   merged, files, raised, done_order, early_rows>>

\* the reporter list is sorted and submitted in order, so of two units of a
\* group the one with the smaller code was submitted, and started, first.
\* Codes are numbers in the lists of Scenarios, and the strings of
\* COUNTRY_MAP when get_reporter_codes has resolved them from it
CodeBefore(a, b) == IF map_pc = "idle" THEN a < b ELSE StrLess(a, b)

\* fetch_single returns in a worker thread: the future holds its result, and
\* is reported to the waiter of as_completed when one is installed
WorkerFinish(u) ==
    /\ u \in running
    /\ Cardinality({v \in running : CodeBefore(v[2], u[2])}) <= MaxOvertake
    /\ Cardinality(Backlog) < MaxBacklog
    /\ \E resp \in Responses(u[1], u[2]) :
          /\ result' = (u :> fetch_single(resp)) @@ result
          /\ raised' = IF resp.kind = "error" /\ u \in holdings
                       THEN raised \cup {u} ELSE raised
          /\ done_order' = IF fetch_single(resp).df # EmptyFrame
                           THEN Append(done_order, u) ELSE done_order
    /\ running' = running \ {u}
    /\ waiter' = IF pc = "yield" THEN Append(waiter, u) ELSE waiter
    /\ UNCHANGED <<map_vars, cepii_vars, merge_vars, main_vars>>
    /\ UNCHANGED <<REPORTERS, PARTNERS, holdings, reporter_codes, pc, year_idx, group_idx, sub_idx,
                   queue, early, yielded, year_data, all_years_data, merged,
                   files, early_rows>>

\* concurrent.futures.as_completed(futures) is entered: the futures already
\* finished are set aside to be yielded first, a waiter collects the others
AsCompleted ==
    /\ pc = "submit"
    /\ sub_idx = Len(group)
    /\ early' = DOMAIN result
    /\ early_rows' = early_rows
                     \cup {u \in DOMAIN result : result[u].df # EmptyFrame}
    /\ waiter' = <<>>
    /\ yielded' = 0
    /\ pc' = "yield"
    /\ UNCHANGED <<map_vars, cepii_vars, merge_vars, main_vars>>
    /\ UNCHANGED <<REPORTERS, PARTNERS, holdings, reporter_codes, year_idx, group_idx, sub_idx,
                   queue, running, result, year_data, all_years_data, merged,
                   files, raised, done_order>>

Accumulate_mut(acc, df_chunk) == Append(acc, df_chunk)

\* year_data after "df_chunk = f.result(); if not df_chunk.empty: append"
Accumulate(acc, df_chunk) ==
    IF df_chunk # EmptyFrame THEN Append(acc, df_chunk) ELSE acc

Forget(f, u) == [v \in DOMAIN f \ {u} |-> f[v]]

\* "df_chunk = f.result()" and the append: f.result() raises again what the
\* call raised, which nothing in fetch_un_comtrade_data or main catches
Collect(u) ==
    IF result[u].exc
    THEN /\ pc' = "aborted"
         /\ UNCHANGED year_data
    ELSE /\ pc' = pc
         /\ year_data' = Accumulate(year_data, result[u].df)

\* one iteration of "for f in as_completed(futures)": the futures set aside
\* come first (in the iteration order of a set), then the waiter's, in the
\* order they finished
Yield ==
    /\ pc = "yield"
    /\ \/ /\ early # {}
          /\ \E u \in early :
               /\ early' = early \ {u}
               /\ Collect(u)
               /\ result' = Forget(result, u)
          /\ UNCHANGED waiter
       \/ /\ early = {}
          /\ waiter # <<>>
          /\ Collect(Head(waiter))
          /\ result' = Forget(result, Head(waiter))
          /\ waiter' = Tail(waiter)
          /\ UNCHANGED early
    /\ yielded' = yielded + 1
    /\ UNCHANGED <<map_vars, cepii_vars, merge_vars, main_vars>>
    /\ UNCHANGED <<REPORTERS, PARTNERS, holdings, reporter_codes, year_idx, group_idx, sub_idx,
                   queue, running, all_years_data, merged, files, raised,
                   done_order, early_rows>>

BatchDone_mut == early = {} /\ waiter = <<>>

\* the as_completed loop has yielded every future of the group, and the
\* with-block's exit (executor.shutdown(wait=True)) has joined the workers
BatchDone ==
    /\ yielded = Len(group)
    /\ queue = <<>>
    /\ running = {}

\* the with-block is left: on to the next group of the year, or to the end
\* of the year
ExitWith ==
    /\ pc = "yield"
    /\ BatchDone
    /\ IF group_idx < NumGroups(reporter_codes)
       THEN /\ group_idx' = group_idx + 1
            /\ pc' = "submit"
       ELSE /\ pc' = "year_end"
            /\ UNCHANGED group_idx
    /\ sub_idx' = 0
    /\ UNCHANGED <<map_vars, cepii_vars, merge_vars, main_vars>>
    /\ UNCHANGED <<REPORTERS, PARTNERS, holdings, reporter_codes, year_idx, queue, running, result,
                   early, waiter, yielded, year_data, all_years_data, merged,
                   files, raised, done_order, early_rows>>

\* lines 426-434: the year's tables are combined, saved and kept
YearEnd ==
    /\ pc = "year_end"
    /\ IF year_data # <<>>
       THEN /\ all_years_data' = Append(all_years_data, concat(year_data))
            /\ files' = files \cup {<<"UNComtrade", year>>}
       ELSE UNCHANGED <<all_years_data, files>>
    /\ year_data' = <<>>
    /\ early_rows' = {}
    /\ IF year_idx < Len(YEARS)
       THEN /\ year_idx' = year_idx + 1
            /\ group_idx' = 1
            /\ pc' = "submit"
       ELSE /\ pc' = "concat"
            /\ UNCHANGED <<year_idx, group_idx>>
    /\ UNCHANGED <<map_vars, cepii_vars, merge_vars, main_vars>>
    /\ UNCHANGED <<REPORTERS, PARTNERS, holdings, reporter_codes, sub_idx, queue, running, result,
                   early, waiter, yielded, merged, raised, done_order>>

\* get_partner_iso_list(): None (here <<>>) for the wildcard
get_partner_iso_list == IF PARTNERS = <<ALL>> THEN <<>> ELSE PARTNERS

\* lines 436-449: the run-wide table, partner-filtered
Finish ==
    /\ pc = "concat"
    /\ IF all_years_data = <<>>
       THEN UNCHANGED <<merged, files>>
       ELSE /\ merged' = IF PARTNERS = <<ALL>>
                         THEN concat(all_years_data)
                         ELSE filter_isin(concat(all_years_data),
                                          get_partner_iso_list)
            /\ files' = files \cup {<<"UNComtrade_Merged", 0>>}
    /\ pc' = "done"
    /\ UNCHANGED <<map_vars, cepii_vars, merge_vars, main_vars>>
    /\ UNCHANGED <<REPORTERS, PARTNERS, holdings, reporter_codes, year_idx, group_idx, sub_idx,
                   queue, running, result, early, waiter, yielded, year_data,
                   all_years_data, raised, done_order, early_rows>>

FetchNext ==
    \/ Begin
    \/ Submit
    \/ WorkerStart
    \/ \E u \in running : WorkerFinish(u)
    \/ AsCompleted
    \/ Yield
    \/ ExitWith
    \/ YearEnd
    \/ Finish

(***************************************************************************)
(* String methods                                                          *)
(***************************************************************************)
Front(s) == SubSeq(s, 1, Len(s) - 1)

IsSpace(c) == c \in {32, 9, 10, 13}

RECURSIVE lstrip(_)
lstrip(s) == IF s # <<>> /\ IsSpace(Head(s)) THEN lstrip(Tail(s)) ELSE s

RECURSIVE rstrip(_)
rstrip(s) == IF s # <<>> /\ IsSpace(s[Len(s)]) THEN rstrip(Front(s)) ELSE s

\* str.strip()
strip(s) == rstrip(lstrip(s))

\* str.upper()
upper(s) == [i \in 1..Len(s) |-> IF s[i] \in 97..122 THEN s[i] - 32 ELSE s[i]]

\* str.zfill(width): zeros after a leading sign, up to the width
RECURSIVE zfill(_, _)
zfill(s, width) ==
    IF Len(s) >= width THEN s
    ELSE IF s # <<>> /\ Head(s) \in {43, 45}
         THEN <<Head(s)>> \o zfill(Tail(s), width - 1)
         ELSE zfill(<<48>> \o s, width)

(***************************************************************************)
(* load_country_mapping                                                    *)
(***************************************************************************)
\* an excerpt of the embedded table (lines 93-129)
HARDCODED_COMTRADE_MAP ==
    (USA :> <<56, 52, 50>>) @@ (THA :> <<55, 54, 52>>)
    @@ (CHN :> <<49, 53, 54>>) @@ (AFG :> <<48, 48, 52>>)

\* dict(zip(keys, values)) over the rows of a table: a later row wins
RECURSIVE dict_zip(_)
dict_zip(rows) ==
    IF rows = <<>> THEN <<>>
    ELSE (rows[Len(rows)].ISO3 :> rows[Len(rows)].CountryCode)
         @@ dict_zip(Front(rows))

\* lines 143-144: the two columns as the loader normalises them
NormalizeRow(r) ==
    [ISO3 |-> upper(strip(r.ISO3)),
     CountryCode |-> zfill(strip(r.CountryCode), 3)]

\* d.update(e): the entries of e replace those of d
dict_update(d, e) ==
    [k \in DOMAIN d \cup DOMAIN e |-> IF k \in DOMAIN e THEN e[k] ELSE d[k]]

load_country_mapping_mut(ext) ==
    LET loaded_map ==
          IF ext.state = "ok"
          THEN dict_zip([i \in 1..Len(ext.rows) |-> NormalizeRow(ext.rows[i])])
          ELSE <<>>
    IN dict_update(HARDCODED_COMTRADE_MAP, loaded_map)

\* load_country_mapping(), given the state of the external file: "missing"
\* (no path, or no file there), "unreadable" (read_excel or a column access
\* raises) or "ok" with the rows of the sheet
load_country_mapping(ext) ==
    LET loaded_map ==
          IF ext.state = "ok"
          THEN dict_zip([i \in 1..Len(ext.rows) |-> NormalizeRow(ext.rows[i])])
          ELSE <<>>
    IN IF DOMAIN loaded_map # {}
       THEN dict_update(loaded_map, HARDCODED_COMTRADE_MAP)
       ELSE HARDCODED_COMTRADE_MAP

\* the ISO3 and CountryCode cells an external sheet may hold
ExtIso == {THA, <<116, 104, 97>>, <<32, 85, 83, 65>>, ZZZ}
ExtCode == {<<55, 54, 52>>, <<57, 57, 57>>, <<52>>}
ExtRows == [ISO3 : ExtIso, CountryCode : ExtCode]

\* the sequences over S of length at most n
SeqsUpTo(S, n) == UNION {[1..k -> S] : k \in 0..n}

MapIdle ==
    /\ ext_table = [state |-> "missing", rows |-> <<>>]
    /\ COUNTRY_MAP = <<>>
    /\ map_pc = "idle"

MapInit ==
    /\ ext_table \in
          {[state |-> "missing", rows |-> <<>>],
           [state |-> "unreadable", rows |-> <<>>]}
          \cup {[state |-> "ok", rows |-> t] : t \in SeqsUpTo(ExtRows, MaxExtRows)}
    /\ COUNTRY_MAP = <<>>
    /\ map_pc = "start"

\* line 162: COUNTRY_MAP = load_country_mapping()
LoadMapping ==
    /\ map_pc = "start"
    /\ COUNTRY_MAP' = load_country_mapping(ext_table)
    /\ map_pc' = "loaded"
    /\ UNCHANGED ext_table
    /\ UNCHANGED <<fetch_vars, cepii_vars, merge_vars, main_vars>>

(***************************************************************************)
(* get_reporter_codes                                                      *)
(***************************************************************************)
\* sorted(S), for a set of strings
RECURSIVE sorted(_)
sorted(S) ==
    IF S = {} THEN <<>>
    ELSE LET m == CHOOSE x \in S : \A y \in S \ {x} : StrLess(x, y)
         IN <<m>> \o sorted(S \ {m})

\* the list "out" of get_reporter_codes (lines 170-176)
RECURSIVE out_list(_, _)
out_list(reporters, map) ==
    IF reporters = <<>> THEN <<>>
    ELSE LET iso_upper == upper(Head(reporters)) IN
           (IF iso_upper \in DOMAIN map THEN <<map[iso_upper]>> ELSE <<>>)
           \o out_list(Tail(reporters), map)

get_reporter_codes_mut(reporters, map) == out_list(reporters, map)

\* get_reporter_codes(), given CONFIG["REPORTERS"] and COUNTRY_MAP
get_reporter_codes(reporters, map) ==
    IF reporters = <<ALL>>
    THEN sorted({map[k] : k \in DOMAIN map})
    ELSE sorted(Range(out_list(reporters, map)))

\* the reporter lists explored: the wildcard, an unmapped code, mapped codes
\* in order and out of order, in lower case and repeated, and the empty list
ReporterLists ==
    {<<ALL>>, <<ZZZ>>, <<THA, USA>>, <<USA, <<117, 115, 97>>, THA>>,
     <<ZZZ, THA>>, <<>>}

\* the external sheets explored with them: none, one giving ZZZ the code of
\* THA, one giving ZZZ a code of its own
CodesExtTables ==
    {[state |-> "missing", rows |-> <<>>],
     [state |-> "ok",
      rows |-> <<[ISO3 |-> ZZZ, CountryCode |-> <<55, 54, 52>>]>>],
     [state |-> "ok",
      rows |-> <<[ISO3 |-> ZZZ, CountryCode |-> <<57, 57, 57>>]>>]}

CodesMapInit ==
    /\ ext_table \in CodesExtTables
    /\ COUNTRY_MAP = <<>>
    /\ map_pc = "start"

\* the trade fetch is about to run, the reporter codes not yet resolved; the
\* service has records of THA for the first year
CodesFetchInit ==
    /\ REPORTERS \in ReporterLists
    /\ PARTNERS = <<ALL>>
    /\ holdings = {<<YEARS[1], HARDCODED_COMTRADE_MAP[THA]>>}
    /\ reporter_codes = <<>>
    /\ pc = "resolve"
    /\ year_idx = 0
    /\ group_idx = 0
    /\ sub_idx = 0
    /\ queue = <<>>
    /\ running = {}
    /\ result = <<>>
    /\ early = {}
    /\ waiter = <<>>
    /\ yielded = 0
    /\ year_data = <<>>
    /\ all_years_data = <<>>
    /\ merged = <<>>
    /\ files = {}
    /\ raised = {}
    /\ done_order = <<>>
    /\ early_rows = {}

\* line 354: reporter_codes = get_reporter_codes()
ResolveReporters ==
    /\ pc = "resolve"
    /\ map_pc = "loaded"
    /\ reporter_codes' = get_reporter_codes(REPORTERS, COUNTRY_MAP)
    /\ pc' = "begin"
    /\ UNCHANGED <<map_vars, cepii_vars, merge_vars, main_vars>>
    /\ UNCHANGED <<REPORTERS, PARTNERS, holdings, year_idx, group_idx, sub_idx, queue,
                   running, result, early, waiter, yielded, year_data,
                   all_years_data, merged, files, raised, done_order, early_rows>>

(***************************************************************************)
(* prepare_cepii_data                                                      *)
(***************************************************************************)
\* a missing value (NaN, <NA>); a number n is <<n>>, a string its code points
NaN == <<>>
notna(v) == v # NaN

IsDigits(s) == s # <<>> /\ \A i \in 1..Len(s) : s[i] \in 48..57

RECURSIVE ParseInt(_)
ParseInt(s) == IF s = <<>> THEN 0 ELSE 10 * ParseInt(Front(s)) + (s[Len(s)] - 48)

\* pd.to_numeric(cell, errors="coerce") of a cell read with dtype=str
\* (the cells explored are digit strings, other strings, or missing)
to_numeric(cell) == IF IsDigits(cell) THEN <<ParseInt(cell)>> ELSE NaN

\* an excerpt of all_cepii_cols (lines 228-242)
all_cepii_cols == <<"iso3_o", "iso3_d", "distw_harmonic", "contig", "comlang_off">>

Dash == 45

\* cols_to_keep (lines 245-251), given the columns of the file
cols_to_keep(requested, columns) ==
    IF requested = <<"all">>
    THEN SelectSeq(all_cepii_cols,
                   LAMBDA c : c \notin {"iso3_o", "iso3_d"} /\ c \in columns)
    ELSE SelectSeq(requested, LAMBDA c : c \in columns)

key_a_mut(r) == r.iso3_o

\* lines 271-272
key_a(r) == IF StrLess(r.iso3_o, r.iso3_d) THEN r.iso3_o ELSE r.iso3_d
key_b(r) == IF StrLess(r.iso3_o, r.iso3_d) THEN r.iso3_d ELSE r.iso3_o

\* lines 261-272: the kept columns, the numeric ones coerced, and the keys
KeyedRow(r, kept) ==
    LET num_cols == {c \in kept : c \in Range(all_cepii_cols) \ {"iso3_o", "iso3_d"}} IN
    [c \in {"iso3_o", "iso3_d", "key_a", "key_b"} \cup kept |->
        CASE c = "key_a" -> key_a(r)
          [] c = "key_b" -> key_b(r)
          [] c \in num_cols -> to_numeric(r[c])
          [] OTHER -> r[c]]

RECURSIVE first_nonnull_mut(_)
first_nonnull_mut(series) ==
    IF series = <<>> THEN NaN
    ELSE IF notna(series[Len(series)]) THEN series[Len(series)]
    ELSE first_nonnull_mut(Front(series))

\* first_nonnull (lines 275-280)
RECURSIVE first_nonnull(_)
first_nonnull(series) ==
    IF series = <<>> THEN NaN
    ELSE IF notna(Head(series)) THEN Head(series)
    ELSE first_nonnull(Tail(series))

\* (a, b) < (c, d) on pairs of strings: the order groupby sorts its keys in
PairLess(k, m) == StrLess(k[1], m[1]) \/ (k[1] = m[1] /\ StrLess(k[2], m[2]))

RECURSIVE SortKeys(_)
SortKeys(S) ==
    IF S = {} THEN <<>>
    ELSE LET k == CHOOSE x \in S : \A y \in S \ {x} : PairLess(x, y)
         IN <<k>> \o SortKeys(S \ {k})

\* df.groupby(["key_a", "key_b"], as_index=False).agg(agg_dict), then
\* cepii_key and the selection of final_cols (lines 291-298)
Collapse(df, kept) ==
    LET keys == SortKeys({<<df[i].key_a, df[i].key_b>> : i \in 1..Len(df)})
        grp(k) == SelectSeq(df, LAMBDA r : r.key_a = k[1] /\ r.key_b = k[2])
        col(g, c) == [i \in 1..Len(g) |-> g[i][c]]
    IN [n \in 1..Len(keys) |->
          [c \in {"cepii_key"} \cup kept |->
              IF c = "cepii_key"
              THEN keys[n][1] \o <<Dash>> \o keys[n][2]
              ELSE first_nonnull(col(grp(keys[n]), c))]]

\* the columns of the file
FileColumns(file) ==
    IF file.state = "no_iso" THEN {"contig", "comlang_off"}
    ELSE {"iso3_o", "iso3_d", "contig", "comlang_off"}

\* prepare_cepii_data(): the keyed table and the table returned. The file is
\* "missing" (no path, no file), "unreadable" (read_csv raises), "no_iso"
\* (an identity column is not there) or "ok"
prepare_cepii_data(file, requested) ==
    LET kept == cols_to_keep(requested, FileColumns(file))
        keyed == [i \in 1..Len(file.rows) |-> KeyedRow(file.rows[i], Range(kept))]
    IN IF file.state \in {"missing", "unreadable", "no_iso"}
       THEN [keyed |-> <<>>, out |-> EmptyFrame]
       ELSE IF kept = <<>>
            THEN [keyed |-> keyed, out |-> EmptyFrame]
            ELSE [keyed |-> keyed, out |-> Collapse(keyed, Range(kept))]

\* the rows a pairwise file may hold: cells are strings or missing
RawPairs == {<<THA, USA>>, <<USA, THA>>, <<CHN, CHN>>}
RawRows ==
    {[iso3_o |-> p[1], iso3_d |-> p[2], contig |-> c, comlang_off |-> l] :
        p \in RawPairs, c \in {NaN, <<48>>, <<49>>}, l \in {<<49>>, <<120>>}}

\* the attribute lists explored: that of CONFIG (line 84), the wildcard, and
\* one naming no column of the file
VariableLists ==
    {<<"distw_harmonic", "contig", "comlang_off">>, <<"all">>, <<"distw_harmonic">>}

CepiiIdle ==
    /\ cepii_file = [state |-> "missing", rows |-> <<>>]
    /\ CEPII_VARIABLES = <<"all">>
    /\ cepii_keyed = <<>>
    /\ cepii_df = <<>>
    /\ cepii_pc = "idle"

CepiiInit ==
    /\ cepii_file \in
          {[state |-> st, rows |-> <<>>] : st \in {"missing", "unreadable", "no_iso"}}
          \cup {[state |-> "ok", rows |-> t] : t \in SeqsUpTo(RawRows, MaxRaw)}
    /\ CEPII_VARIABLES \in VariableLists
    /\ cepii_keyed = <<>>
    /\ cepii_df = <<>>
    /\ cepii_pc = "start"

\* line 574: cepii_df = prepare_cepii_data()
PrepareCepii ==
    /\ cepii_pc = "start"
    /\ cepii_keyed' = prepare_cepii_data(cepii_file, CEPII_VARIABLES).keyed
    /\ cepii_df' = prepare_cepii_data(cepii_file, CEPII_VARIABLES).out
    /\ cepii_pc' = "done"
    /\ UNCHANGED <<cepii_file, CEPII_VARIABLES>>
    /\ UNCHANGED <<fetch_vars, map_vars, merge_vars, main_vars>>

(***************************************************************************)
(* merge_datasets                                                          *)
(***************************************************************************)
\* lines 460-462: period becomes year, coerced to a nullable integer
YearRow(t) ==
    [c \in (DOMAIN t \ {"period"}) \cup {"year"} |->
        IF c = "year" THEN to_numeric(t.period) ELSE t[c]]

\* the name of column c of df_wb after add_suffix and rename (lines 465-466)
SideColumn(c, suffix, iso_col) ==
    IF c = "countryISO" THEN iso_col
    ELSE IF c = "Year" THEN "year"
    ELSE c \o suffix

\* df_wb.add_suffix(suffix).rename(columns={...}) (lines 465-466)
wb_side(df, suffix, iso_col) ==
    [i \in 1..Len(df) |->
        [d \in {SideColumn(c, suffix, iso_col) : c \in DOMAIN df[i]} |->
            df[i][CHOOSE c \in DOMAIN df[i] : SideColumn(c, suffix, iso_col) = d]]]

KeysMatch_mut(l, r, left_on, right_on) == l[left_on[1]] = r[right_on[1]]

\* a row of the left table and a row of the right agree on the join keys
KeysMatch(l, r, left_on, right_on) ==
    \A k \in 1..Len(left_on) : l[left_on[k]] = r[right_on[k]]

\* a left row joined with a right row, or with none: the columns of the
\* right table that the left row has not are filled from the right row,
\* or are missing
JoinRow(l, r, right_cols, matched) ==
    [c \in DOMAIN l \cup right_cols |->
        IF c \in DOMAIN l THEN l[c] ELSE IF matched THEN r[c] ELSE NaN]

RECURSIVE left_merge_mut(_, _, _, _, _)
left_merge_mut(left, right, right_cols, left_on, right_on) ==
    IF left = <<>> THEN <<>>
    ELSE LET l == Head(left)
             hits == SelectSeq(right, LAMBDA r : KeysMatch(l, r, left_on, right_on))
         IN [n \in 1..Len(hits) |-> JoinRow(l, hits[n], right_cols, TRUE)]
            \o left_merge_mut(Tail(left), right, right_cols, left_on, right_on)

\* left.merge(right, how="left"), on the given key columns: the rows of the
\* left table in order, each with every matching row of the right table, or
\* once with missing values when none matches
RECURSIVE left_merge(_, _, _, _, _)
left_merge(left, right, right_cols, left_on, right_on) ==
    IF left = <<>> THEN <<>>
    ELSE LET l == Head(left)
             hits == SelectSeq(right, LAMBDA r : KeysMatch(l, r, left_on, right_on))
         IN (IF hits = <<>> THEN <<JoinRow(l, l, right_cols, FALSE)>>
             ELSE [n \in 1..Len(hits) |-> JoinRow(l, hits[n], right_cols, TRUE)])
            \o left_merge(Tail(left), right, right_cols, left_on, right_on)

merge_key_mut(R, P) == R \o <<Dash>> \o P

\* lines 476-480
merge_key(R, P) ==
    IF StrLess(R, P) THEN R \o <<Dash>> \o P ELSE P \o <<Dash>> \o R

\* df.drop(columns=cols, errors="ignore")
drop(df, cols) ==
    [i \in 1..Len(df) |-> [c \in DOMAIN df[i] \ cols |-> df[i][c]]]

\* the columns of df_wb: the identity columns and two of WB_VARIABLES
WbColumns == {"countryISO", "Year", "NY.GDP.MKTP.CD", "SP.POP.TOTL"}

\* the columns merge_datasets reads without asking whether they are there:
\* "year" once "period" is renamed (line 462), and the join keys (lines
\* 468-469)
HasRequiredColumns(df) ==
    \A i \in 1..Len(df) : {"period", "reporterISO", "partnerISO"} \subseteq DOMAIN df[i]

\* merge_datasets(): the temporary key column, the table returned, whether
\* it was written to the output directory, and whether a KeyError was raised
merge_datasets(df_wb, df_trade, df_cepii) ==
    LET trade == [i \in 1..Len(df_trade) |-> YearRow(df_trade[i])]
        wb_rep == wb_side(df_wb, "_reporter", "reporterISO")
        wb_par == wb_side(df_wb, "_partner", "partnerISO")
        rep_cols == {SideColumn(c, "_reporter", "reporterISO") : c \in WbColumns}
        par_cols == {SideColumn(c, "_partner", "partnerISO") : c \in WbColumns}
        m1 == left_merge(trade, wb_rep, rep_cols,
                         <<"reporterISO", "year">>, <<"reporterISO", "year">>)
        m2 == left_merge(m1, wb_par, par_cols,
                         <<"partnerISO", "year">>, <<"partnerISO", "year">>)
        keyed == [i \in 1..Len(m2) |->
                    [c \in DOMAIN m2[i] \cup {"cepii_merge_key"} |->
                        IF c = "cepii_merge_key"
                        THEN merge_key(m2[i].reporterISO, m2[i].partnerISO)
                        ELSE m2[i][c]]]
        m3 == left_merge(keyed, df_cepii, DOMAIN df_cepii[1],
                         <<"cepii_merge_key">>, <<"cepii_key">>)
    IN IF df_trade = <<>>
       THEN [keys |-> <<>>, out |-> df_trade, saved |-> FALSE, raised |-> FALSE]
       ELSE IF ~HasRequiredColumns(df_trade)
       THEN [keys |-> <<>>, out |-> <<>>, saved |-> FALSE, raised |-> TRUE]
       ELSE IF df_cepii # <<>>
            THEN [keys |-> [i \in 1..Len(keyed) |-> keyed[i].cepii_merge_key],
                  out |-> drop(m3, {"cepii_merge_key", "cepii_key"}),
                  saved |-> TRUE, raised |-> FALSE]
            ELSE [keys |-> <<>>, out |-> m2, saved |-> TRUE, raised |-> FALSE]

\* the rows a trade table may hold; a period may fail to parse
Periods == {<<50, 48, 49, 53>>, <<50, 48, 49, 54>>, <<120>>}
TradeRows ==
    {[reporterISO |-> r, partnerISO |-> p, period |-> y] :
        r \in {THA, USA}, p \in {THA, USA, CHN}, y \in Periods}

\* the indicator rows the service holds, one per (country, year); it has no
\* observation of the first indicator for THA in 2016
WbRow(iso, y, gdp, pop) ==
    [countryISO |-> iso, Year |-> <<y>>] @@
    ("NY.GDP.MKTP.CD" :> gdp) @@ ("SP.POP.TOTL" :> <<pop>>)
WbRows == <<WbRow(THA, 2015, <<500>>, 70), WbRow(THA, 2016, NaN, 71),
            WbRow(USA, 2015, <<900>>, 320)>>
WbTables ==
    {<<>>, <<WbRows[1]>>, <<WbRows[1], WbRows[3]>>, WbRows}

RawRow(o, d, c, l) == [iso3_o |-> o, iso3_d |-> d, contig |-> c, comlang_off |-> l]
\* the pairwise files the merge is explored with
MergeCepiiFiles ==
    {[state |-> "missing", rows |-> <<>>],
     [state |-> "ok", rows |-> <<>>],
     [state |-> "ok", rows |-> <<RawRow(THA, USA, <<48>>, <<120>>),
                                 RawRow(USA, THA, <<49>>, <<49>>)>>],
     [state |-> "ok", rows |-> <<RawRow(USA, THA, NaN, <<49>>),
                                 RawRow(THA, THA, <<49>>, <<49>>),
                                 RawRow(THA, USA, <<48>>, <<120>>)>>]}

MergeIdle ==
    /\ wb_df = <<>>
    /\ trade_df = <<>>
    /\ merge_keys = <<>>
    /\ merged_df = <<>>
    /\ merged_csv = [saved |-> FALSE, rows |-> <<>>]
    /\ merge_pc = "idle"

MergeInit ==
    /\ wb_df \in WbTables
    /\ trade_df \in SeqsUpTo(TradeRows, MaxTrade)
    /\ merge_keys = <<>>
    /\ merged_df = <<>>
    /\ merged_csv = [saved |-> FALSE, rows |-> <<>>]
    /\ merge_pc = "start"

MergeCepiiInit ==
    /\ cepii_file \in MergeCepiiFiles
    /\ CEPII_VARIABLES \in {<<"distw_harmonic", "contig", "comlang_off">>,
                            <<"distw_harmonic">>}
    /\ cepii_keyed = <<>>
    /\ cepii_df = <<>>
    /\ cepii_pc = "start"

\* line 584: merged_df = merge_datasets(wb_df, trade_df, cepii_df)
MergeDatasets ==
    /\ cepii_pc = "done"
    /\ merge_pc = "start"
    /\ LET m == merge_datasets(wb_df, trade_df, cepii_df) IN
          /\ merge_keys' = m.keys
          /\ merged_df' = m.out
          /\ merged_csv' = IF m.saved THEN [saved |-> TRUE, rows |-> m.out]
                           ELSE merged_csv
          /\ merge_pc' = IF m.raised THEN "raised" ELSE "done"
    /\ UNCHANGED <<wb_df, trade_df>>
    /\ UNCHANGED <<fetch_vars, map_vars, cepii_vars, main_vars>>

(***************************************************************************)
(* main                                                                    *)
(***************************************************************************)
MainIdle ==
    /\ MERGE_DATA = TRUE
    /\ wb_service = "ok"
    /\ wb_pc = "idle"
    /\ trade_pc = "idle"
    /\ summary_pc = "idle"

\* main is entered: the indicator service works or fails, nothing is fetched
\* or merged yet
MainInit ==
    /\ MERGE_DATA \in BOOLEAN
    /\ wb_service \in {"ok", "error"}
    /\ wb_pc = "start"
    /\ trade_pc = "start"
    /\ summary_pc = "start"
    /\ wb_df = <<>>
    /\ trade_df = <<>>
    /\ merge_keys = <<>>
    /\ merged_df = <<>>
    /\ merged_csv = [saved |-> FALSE, rows |-> <<>>]
    /\ merge_pc = "wait"

\* line 577: wb_df = fetch_world_bank_data(). The request (lines 322-329)
\* is in no try block: what it raises leaves fetch_world_bank_data and main
FetchWorldBank ==
    /\ cepii_pc = "done"
    /\ wb_pc = "start"
    /\ IF wb_service = "error"
       THEN /\ wb_pc' = "raised"
            /\ UNCHANGED wb_df
       ELSE /\ wb_pc' = "done"
            /\ \E t \in WbTables : wb_df' = t
    /\ UNCHANGED <<trade_df, merge_keys, merged_df, merged_csv, merge_pc>>
    /\ UNCHANGED <<MERGE_DATA, wb_service, trade_pc, summary_pc>>
    /\ UNCHANGED <<fetch_vars, map_vars, cepii_vars>>

\* a table fetch_single makes of a dict the service returned (line 389):
\* its columns are the keys of the dict
PayloadRow == [statusCode |-> <<52, 48, 49>>, message |-> <<120>>]

\* the tables fetch_un_comtrade_data may return to main: none, tables of
\* trade rows, or a table without the columns of a trade row
MainTradeTables ==
    {<<>>,
     <<[reporterISO |-> THA, partnerISO |-> USA, period |-> <<50, 48, 49, 53>>]>>,
     <<[reporterISO |-> THA, partnerISO |-> USA, period |-> <<50, 48, 49, 53>>],
       [reporterISO |-> USA, partnerISO |-> CHN, period |-> <<120>>]>>,
     <<PayloadRow>>}

\* line 580: trade_df = fetch_un_comtrade_data(), which lets no exception
\* through; then line 582: if CONFIG["MERGE_DATA"]
FetchTrade ==
    /\ wb_pc = "done"
    /\ trade_pc = "start"
    /\ \E t \in MainTradeTables : trade_df' = t
    /\ trade_pc' = "done"
    /\ merge_pc' = IF MERGE_DATA THEN "start" ELSE "skipped"
    /\ UNCHANGED <<wb_df, merge_keys, merged_df, merged_csv>>
    /\ UNCHANGED <<MERGE_DATA, wb_service, wb_pc, summary_pc>>
    /\ UNCHANGED <<fetch_vars, map_vars, cepii_vars>>

\* line 587: export_summary(merged_df), skipped for an empty table
ExportSummary ==
    /\ merge_pc = "done"
    /\ summary_pc = "start"
    /\ summary_pc' = IF merged_df = <<>> THEN "skipped" ELSE "done"
    /\ UNCHANGED <<MERGE_DATA, wb_service, wb_pc, trade_pc>>
    /\ UNCHANGED <<fetch_vars, map_vars, cepii_vars, merge_vars>>

(***************************************************************************)
(* Specifications                                                          *)
(***************************************************************************)
\* every stage starts from its own inputs; the stages a specification does
\* not run are idle
Init == FetchInit /\ MapIdle /\ CepiiIdle /\ MergeIdle /\ MainIdle

InitMap == MapInit /\ FetchIdle /\ CepiiIdle /\ MergeIdle /\ MainIdle

InitCepii == CepiiInit /\ FetchIdle /\ MapIdle /\ MergeIdle /\ MainIdle

InitMerge == MergeCepiiInit /\ MergeInit /\ FetchIdle /\ MapIdle /\ MainIdle

InitMain == MergeCepiiInit /\ MainInit /\ FetchIdle /\ MapIdle

InitCodes == CodesMapInit /\ CodesFetchInit /\ CepiiIdle /\ MergeIdle /\ MainIdle

\* the trade fetch
Spec ==
    /\ Init
    /\ [][FetchNext]_vars

\* the code resolution
SpecMap ==
    /\ InitMap
    /\ [][LoadMapping]_vars

\* the code mapping, the resolution of the reporters, then the trade fetch
CodesNext ==
    \/ LoadMapping
    \/ ResolveReporters
    \/ FetchNext

SpecCodes ==
    /\ InitCodes
    /\ [][CodesNext]_vars

\* main (lines 570-589): the stages, one after another
MainNext ==
    \/ PrepareCepii
    \/ FetchWorldBank
    \/ FetchTrade
    \/ MergeDatasets
    \/ ExportSummary

SpecMain ==
    /\ InitMain
    /\ [][MainNext]_vars

\* the pairwise normalizer
SpecCepii ==
    /\ InitCepii
    /\ [][PrepareCepii]_vars

\* the pairwise normalizer, then the merge (main, lines 574 and 584)
MergeNext ==
    \/ PrepareCepii
    \/ MergeDatasets

SpecMerge ==
    /\ InitMerge
    /\ [][MergeNext]_vars


(***************************************************************************)
(* Properties of the trade fetch                                           *)
(***************************************************************************)
UnitOf(row) == <<row.period, row.reporterCode>>

RowsFrom(tab, u) == SelectSeq(tab, LAMBDA r : UnitOf(r) = u)

\* the group a unit of the reporter list belongs to
GroupOf(u) ==
    LET i == CHOOSE k \in 1..Len(reporter_codes) : reporter_codes[k] = u[2]
    IN ((i - 1) \div group_size) + 1

Before(s, a, b) ==
    \E i \in 1..Len(s) : \E j \in (i + 1)..Len(s) : s[i] = a /\ s[j] = b

\* C1: a unit whose request raises does not abort the run; with the partner
\* wildcard the table returned holds no row of a unit that raised and, whole
\* and once, the rows of every unit that was fetched, and nothing else.
C1_FailureIsolated ==
    /\ pc # "aborted"
    /\ (pc = "done" /\ PARTNERS = <<ALL>>) =>
         /\ \A u \in raised : RowsFrom(merged, u) = <<>>
         /\ \A u \in Range(done_order) :
                RowsFrom(merged, u) = ServiceRows(u[1], u[2])
         /\ \A i \in 1..Len(merged) : UnitOf(merged[i]) \in Range(done_order)

\* a run over two groups ends with the rows of a unit of the second group
\* although a unit of the first group of the same year raised
C1_Witness ==
    /\ pc = "done"
    /\ PARTNERS = <<ALL>>
    /\ \E u \in raised : \E v \in Range(done_order) :
          /\ u[1] = v[1]
          /\ GroupOf(u) # GroupOf(v)
          /\ RowsFrom(merged, v) # <<>>

\* C2: the groups are consecutive slices of at most group_size (20) codes of
\* the reporter list; every unit queued, running or awaiting collection
\* belongs to the group at hand, and the main thread leaves a group (for the
\* next group or the next year) only when all its units were submitted,
\* have completed and were collected.
C2_BatchBarrier ==
    /\ [](/\ LET groups == reporter_groups(reporter_codes)
             IN  /\ \A g \in DOMAIN groups :
                       Len(groups[g]) >= 1 /\ Len(groups[g]) <= 20
                 /\ concat(groups) = reporter_codes
          /\ IF pc \in {"submit", "yield"}
             THEN Range(queue) \cup running \cup DOMAIN result \subseteq GroupUnits
             ELSE queue = <<>> /\ running = {} /\ result = <<>>)
    /\ [][(pc \in {"submit", "yield"}
           /\ (group_idx' # group_idx \/ year_idx' # year_idx \/ pc' = "year_end"))
          => (/\ sub_idx = Len(group)
              /\ yielded = Len(group)
              /\ queue = <<>>
              /\ running = {}
              /\ result = <<>>)]_vars

\* a unit of the second group of the second year is in flight
C2_Witness ==
    /\ year_idx = 2
    /\ group_idx = 2
    /\ running # {}
    /\ running \subseteq GroupUnits

\* C3: at most 10 fetch units are in flight at any moment.
C3_AtMostTenInFlight == Cardinality(running) <= 10

\* ten units are in flight and further units of the group wait in the queue
C3_Witness == Cardinality(running) = 10 /\ queue # <<>>

AccUnit(i) == UnitOf(year_data[i][1])

\* every table of the accumulator is the whole, non-empty result of a unit
\* of the year that has completed and been collected, each unit once
WholeResults ==
    /\ \A i \in 1..Len(year_data) :
          /\ year_data[i] # EmptyFrame
          /\ year_data[i] = ServiceRows(AccUnit(i)[1], AccUnit(i)[2])
          /\ AccUnit(i)[1] = year
          /\ AccUnit(i) \in Range(done_order)
          /\ AccUnit(i) \notin running \cup Range(queue) \cup DOMAIN result
    /\ \A i, j \in 1..Len(year_data) : i # j => AccUnit(i) # AccUnit(j)

\* C4 as stated: whole results only, appended in completion order.
C4_CompletionOrder ==
    /\ WholeResults
    /\ \A i, j \in 1..Len(year_data) :
          i < j => Before(done_order, AccUnit(i), AccUnit(j))

\* C4, amended: whole results only, appended in completion order except
\* among the units of one group that had already finished when as_completed
\* was entered, which come first in no particular order.
C4_AccumulatorWholeResults ==
    /\ WholeResults
    /\ \A i, j \in 1..Len(year_data) :
          i < j =>
            \/ Before(done_order, AccUnit(i), AccUnit(j))
            \/ /\ {AccUnit(i), AccUnit(j)} \subseteq early_rows
               /\ GroupOf(AccUnit(i)) = GroupOf(AccUnit(j))

\* two results were appended in completion order, against submission order
C4_Witness ==
    /\ Len(year_data) = 2
    /\ AccUnit(1)[2] > AccUnit(2)[2]
    /\ Before(done_order, AccUnit(1), AccUnit(2))
    /\ early_rows = {}

(***************************************************************************)
(* Properties of the code resolution                                       *)
(***************************************************************************)
\* the ISO3 values the external sheet defines, as the loader reads them
ExtDefined ==
    IF ext_table.state = "ok"
    THEN {NormalizeRow(ext_table.rows[i]).ISO3 : i \in 1..Len(ext_table.rows)}
    ELSE {}

\* the code the external sheet gives an ISO3: that of its last row for it
ExtCodeOf(iso) ==
    LET i == CHOOSE k \in 1..Len(ext_table.rows) :
                /\ NormalizeRow(ext_table.rows[k]).ISO3 = iso
                /\ \A m \in (k + 1)..Len(ext_table.rows) :
                      NormalizeRow(ext_table.rows[m]).ISO3 # iso
    IN NormalizeRow(ext_table.rows[i]).CountryCode

\* C10: the resolved mapping gives every ISO3 of the embedded table its
\* embedded code whatever the external table says, gives an ISO3 that only
\* the external table defines its external code, defines nothing else, and
\* is the embedded table when the external one is absent, unreadable or empty.
C10_EmbeddedWins ==
    map_pc = "loaded" =>
      /\ \A iso \in DOMAIN HARDCODED_COMTRADE_MAP :
            /\ iso \in DOMAIN COUNTRY_MAP
            /\ COUNTRY_MAP[iso] = HARDCODED_COMTRADE_MAP[iso]
      /\ \A iso \in ExtDefined \ DOMAIN HARDCODED_COMTRADE_MAP :
            /\ iso \in DOMAIN COUNTRY_MAP
            /\ COUNTRY_MAP[iso] = ExtCodeOf(iso)
      /\ DOMAIN COUNTRY_MAP = DOMAIN HARDCODED_COMTRADE_MAP \cup ExtDefined
      /\ (ext_table.state # "ok" \/ ext_table.rows = <<>>) =>
            COUNTRY_MAP = HARDCODED_COMTRADE_MAP

\* the external sheet gives THA another code than the embedded table and
\* defines ZZZ, which the embedded table does not
C10_Witness ==
    /\ map_pc = "loaded"
    /\ ext_table.state = "ok"
    /\ \E i \in 1..Len(ext_table.rows) :
          /\ NormalizeRow(ext_table.rows[i]).ISO3 = THA
          /\ NormalizeRow(ext_table.rows[i]).CountryCode # HARDCODED_COMTRADE_MAP[THA]
    /\ ZZZ \in DOMAIN COUNTRY_MAP
    /\ COUNTRY_MAP[THA] = HARDCODED_COMTRADE_MAP[THA]

(***************************************************************************)
(* Properties of the pairwise normalizer                                   *)
(***************************************************************************)
\* the normalizer has run and emitted a table: the file was read, has its
\* identity columns and at least one requested attribute
Normalized ==
    /\ cepii_pc = "done"
    /\ cepii_file.state = "ok"
    /\ cols_to_keep(CEPII_VARIABLES, FileColumns(cepii_file)) # <<>>

KeptAttributes == Range(cols_to_keep(CEPII_VARIABLES, FileColumns(cepii_file)))

\* the unordered pair of a raw row
PairOf(r) == {r.iso3_o, r.iso3_d}

\* the output rows that stand for an unordered pair
OutRowsOf(P) ==
    {n \in 1..Len(cepii_df) :
        \E a \in P, b \in P :
            P = {a, b} /\ cepii_df[n].cepii_key = a \o <<Dash>> \o b}

\* the indices of the raw rows of a pair whose attribute parses to a value
ValuedRows(P, c) ==
    {i \in 1..Len(cepii_file.rows) :
        /\ PairOf(cepii_file.rows[i]) = P
        /\ notna(to_numeric(cepii_file.rows[i][c]))}

\* C6: in a normalized table, each attribute of the row of a pair is the
\* first non-null value of that attribute among the raw rows of the pair in
\* file order, taken per attribute, and is null when all of them are null.
C6_FirstNonNull ==
    Normalized =>
      \A i \in 1..Len(cepii_file.rows) :
        LET P == PairOf(cepii_file.rows[i]) IN
          \A n \in OutRowsOf(P) : \A c \in KeptAttributes :
            IF ValuedRows(P, c) = {}
            THEN cepii_df[n][c] = NaN
            ELSE LET first == CHOOSE k \in ValuedRows(P, c) :
                                 \A m \in ValuedRows(P, c) : k <= m
                 IN cepii_df[n][c] = to_numeric(cepii_file.rows[first][c])

\* two raw rows of one pair: the first has contig 0 and no comlang_off, the
\* second has contig 1 and comlang_off 1; the row of the pair has contig 0
\* and comlang_off 1
C6_Witness ==
    /\ Normalized
    /\ Len(cepii_file.rows) >= 2
    /\ PairOf(cepii_file.rows[1]) = {THA, USA}
    /\ PairOf(cepii_file.rows[2]) = {THA, USA}
    /\ cepii_file.rows[1].iso3_o # cepii_file.rows[2].iso3_o
    /\ to_numeric(cepii_file.rows[1].contig) = <<0>>
    /\ to_numeric(cepii_file.rows[1].comlang_off) = NaN
    /\ to_numeric(cepii_file.rows[2].contig) = <<1>>
    /\ to_numeric(cepii_file.rows[2].comlang_off) = <<1>>
    /\ \E n \in 1..Len(cepii_df) :
          cepii_df[n].contig = <<0>> /\ cepii_df[n].comlang_off = <<1>>

\* C7: a normalized table has exactly one row per unordered pair of the raw
\* rows: no two rows carry the same key, and every raw row, in either
\* direction and however often repeated, has exactly one row for its pair.
C7_OneRowPerPair ==
    Normalized =>
      /\ \A n, m \in 1..Len(cepii_df) :
            n # m => cepii_df[n].cepii_key # cepii_df[m].cepii_key
      /\ \A i \in 1..Len(cepii_file.rows) :
            Cardinality(OutRowsOf(PairOf(cepii_file.rows[i]))) = 1
      /\ Len(cepii_df) =
            Cardinality({PairOf(cepii_file.rows[i]) : i \in 1..Len(cepii_file.rows)})

\* (THA, USA), (USA, THA) and (THA, USA) again collapse into one row
C7_Witness ==
    /\ Normalized
    /\ Len(cepii_file.rows) = 3
    /\ cepii_file.rows[1].iso3_o = THA /\ cepii_file.rows[1].iso3_d = USA
    /\ cepii_file.rows[2].iso3_o = USA /\ cepii_file.rows[2].iso3_d = THA
    /\ cepii_file.rows[3].iso3_o = THA /\ cepii_file.rows[3].iso3_d = USA
    /\ Len(cepii_df) = 1

(***************************************************************************)
(* Properties of the merge                                                 *)
(***************************************************************************)
MergeDone == merge_pc = "done"

\* the pair key the normalizer built for a keyed row
KeyedKey(r) == r.key_a \o <<Dash>> \o r.key_b

\* C5: the pair key of (A, B) is the pair key of (B, A), both on the rows
\* the normalizer keys and on the trade rows the merge keys.
C5_KeySymmetric ==
    /\ \A i, j \in 1..Len(cepii_keyed) :
          (/\ cepii_keyed[i].iso3_o = cepii_keyed[j].iso3_d
           /\ cepii_keyed[i].iso3_d = cepii_keyed[j].iso3_o)
          => KeyedKey(cepii_keyed[i]) = KeyedKey(cepii_keyed[j])
    /\ \A i, j \in 1..Len(merge_keys) :
          (/\ trade_df[i].reporterISO = trade_df[j].partnerISO
           /\ trade_df[i].partnerISO = trade_df[j].reporterISO)
          => merge_keys[i] = merge_keys[j]

\* the normalizer has keyed (THA, USA) and (USA, THA), and so has the merge
C5_Witness ==
    /\ MergeDone
    /\ \E i, j \in 1..Len(cepii_keyed) :
          /\ cepii_keyed[i].iso3_o = THA /\ cepii_keyed[i].iso3_d = USA
          /\ cepii_keyed[j].iso3_o = USA /\ cepii_keyed[j].iso3_d = THA
    /\ Len(merge_keys) = 2
    /\ trade_df[1].reporterISO = USA /\ trade_df[1].partnerISO = THA
    /\ trade_df[2].reporterISO = THA /\ trade_df[2].partnerISO = USA

\* C8: the table merged from a non-empty trade table has the rows of the
\* trade table, each exactly once and in place: as many rows, and row i
\* carries the reporter, the partner and the year of trade row i.
C8_RowsPreserved ==
    (MergeDone /\ trade_df # <<>>) =>
      /\ Len(merged_df) = Len(trade_df)
      /\ \A i \in 1..Len(merged_df) :
            /\ merged_df[i].reporterISO = trade_df[i].reporterISO
            /\ merged_df[i].partnerISO = trade_df[i].partnerISO
            /\ merged_df[i].year = to_numeric(trade_df[i].period)

\* two trade rows, one matched by all three joins and one by none
C8_Witness ==
    /\ MergeDone
    /\ Len(trade_df) = 2
    /\ Len(wb_df) = 3
    /\ cepii_df # <<>>
    /\ trade_df[1] = [reporterISO |-> THA, partnerISO |-> USA,
                      period |-> <<50, 48, 49, 53>>]
    /\ trade_df[2] = [reporterISO |-> USA, partnerISO |-> CHN, period |-> <<120>>]
    /\ Len(merged_df) = 2

\* the indicator rows of a country and a year
WbRowsOf(iso, y) ==
    {k \in 1..Len(wb_df) : wb_df[k].countryISO = iso /\ wb_df[k].Year = y}

\* the columns suffixed for one side hold the values of wb_df row k
SideHolds(row, suffix, k) ==
    \A c \in WbColumns \ {"countryISO", "Year"} : row[c \o suffix] = wb_df[k][c]

\* the columns suffixed for one side are missing
SideMissing(row, suffix) ==
    \A c \in WbColumns \ {"countryISO", "Year"} : row[c \o suffix] = NaN

\* C9: in every merged row the reporter-side columns hold the values of the
\* indicator row of (reporter, year) when there is one and are missing when
\* there is none, and the partner-side columns likewise for (partner, year).
C9_IndicatorSides ==
    (MergeDone /\ trade_df # <<>>) =>
      \A i \in 1..Len(merged_df) :
        LET row == merged_df[i] IN
          /\ IF WbRowsOf(row.reporterISO, row.year) = {}
             THEN SideMissing(row, "_reporter")
             ELSE \A k \in WbRowsOf(row.reporterISO, row.year) :
                     SideHolds(row, "_reporter", k)
          /\ IF WbRowsOf(row.partnerISO, row.year) = {}
             THEN SideMissing(row, "_partner")
             ELSE \A k \in WbRowsOf(row.partnerISO, row.year) :
                     SideHolds(row, "_partner", k)

\* a row whose reporter has an indicator row and whose partner has none: its
\* reporter side is populated and its partner side is missing
C9_Witness ==
    /\ MergeDone
    /\ \E i \in 1..Len(merged_df) :
          /\ merged_df[i].reporterISO = USA
          /\ merged_df[i].partnerISO = CHN
          /\ merged_df[i].year = <<2015>>
          /\ merged_df[i]["NY.GDP.MKTP.CD_reporter"] = <<900>>
          /\ merged_df[i]["SP.POP.TOTL_reporter"] = <<320>>
          /\ merged_df[i]["NY.GDP.MKTP.CD_partner"] = NaN
          /\ merged_df[i]["SP.POP.TOTL_partner"] = NaN

(***************************************************************************)
(* Properties of the reporter-code resolution                              *)
(***************************************************************************)
\* get_reporter_codes has returned
Resolved == map_pc = "loaded" /\ pc \notin {"idle", "resolve"}

\* the codes of the requested reporters that COUNTRY_MAP maps
RequestedCodes ==
    IF REPORTERS = <<ALL>>
    THEN {COUNTRY_MAP[k] : k \in DOMAIN COUNTRY_MAP}
    ELSE {COUNTRY_MAP[upper(REPORTERS[i])] :
            i \in {n \in 1..Len(REPORTERS) : upper(REPORTERS[n]) \in DOMAIN COUNTRY_MAP}}

\* C11: the reporter codes are the codes of exactly the requested reporters
\* that are mapped (of every mapped country for the wildcard), in strictly
\* increasing order, hence without duplicates; when none is mapped the list
\* is empty, no fetch unit is ever submitted, nothing is raised and the
\* fetch returns the empty table.
C11_ReporterCodes ==
    Resolved =>
      /\ Range(reporter_codes) = RequestedCodes
      /\ \A i, j \in 1..Len(reporter_codes) :
            i < j => StrLess(reporter_codes[i], reporter_codes[j])
      /\ pc # "aborted"
      /\ RequestedCodes = {} =>
            /\ reporter_codes = <<>>
            /\ pc \in {"begin", "done"}
            /\ sub_idx = 0 /\ queue = <<>> /\ running = {} /\ result = <<>>
            /\ merged = EmptyFrame

\* ZZZ alone is requested and is not mapped: the fetch has returned, empty
C11_Witness ==
    /\ Resolved
    /\ REPORTERS = <<ZZZ>>
    /\ ZZZ \notin DOMAIN COUNTRY_MAP
    /\ reporter_codes = <<>>
    /\ pc = "done"
    /\ merged = EmptyFrame

(***************************************************************************)
(* Properties of the partner filter                                        *)
(***************************************************************************)
\* the rows fetched over the run: the tables of the years, one after another
Fetched == concat(all_years_data)

\* the rows of a table whose partner is requested
Requested(tab) == SelectSeq(tab, LAMBDA r : r.partnerISO \in Range(PARTNERS))

Terminated == wb_pc = "raised" \/ merge_pc = "raised" \/ pc = "aborted"

\* C13: no error of a stage that main runs ends the process: no stage lets
\* an exception through.
C13_NoEscalation == ~Terminated

(***************************************************************************)
(* Properties of the pairwise join                                         *)
(***************************************************************************)
\* the unordered pair of a trade row
TradePair(t) == {t.reporterISO, t.partnerISO}

\* C14: the key the merge computes on a trade row (R, P) is the key the
\* normalizer computed for the raw rows (R, P) and (P, R); the merged row
\* carries the attributes of the normalized row of the pair {R, P} when
\* there is one and missing values when there is none, and the columns
\* cepii_merge_key and cepii_key are not in the table returned.
C14_KeysAgree ==
    (MergeDone /\ trade_df # <<>>) =>
      /\ \A i \in 1..Len(merged_df) :
            {"cepii_merge_key", "cepii_key"} \cap DOMAIN merged_df[i] = {}
      /\ cepii_df # <<>> =>
            \A i \in 1..Len(trade_df) :
              /\ \A j \in 1..Len(cepii_keyed) :
                    PairOf(cepii_keyed[j]) = TradePair(trade_df[i])
                    => merge_keys[i] = KeyedKey(cepii_keyed[j])
              /\ \A n \in OutRowsOf(TradePair(trade_df[i])) :
                    /\ merge_keys[i] = cepii_df[n].cepii_key
                    /\ \A c \in KeptAttributes : merged_df[i][c] = cepii_df[n][c]
              /\ OutRowsOf(TradePair(trade_df[i])) = {} =>
                    \A c \in KeptAttributes : merged_df[i][c] = NaN

\* the pairwise file has (USA, THA), (THA, THA) and (THA, USA); the trade
\* row (USA, THA) carries the attributes of THA-USA, the trade row
\* (THA, THA) those of THA-THA
C14_Witness ==
    /\ MergeDone
    /\ Len(cepii_df) = 2
    /\ Len(trade_df) = 2
    /\ trade_df[1].reporterISO = USA /\ trade_df[1].partnerISO = THA
    /\ trade_df[2].reporterISO = THA /\ trade_df[2].partnerISO = THA
    /\ merge_keys = <<THA \o <<Dash>> \o USA, THA \o <<Dash>> \o THA>>
    /\ merged_df[1].contig = <<0>> /\ merged_df[1].comlang_off = <<1>>
    /\ merged_df[2].contig = <<1>> /\ merged_df[2].comlang_off = <<1>>

=============================================================================
